---- MODULE Spec2Model ----
(***************************************************************************)
(* Model of streamlit-app-chunking.py: one transcription job, from the     *)
(* click on "Transcrever" to the end of the script run.                    *)
(*                                                                         *)
(* Sizes are bytes, times are milliseconds, as in the source.  A string is *)
(* a sequence of tokens; the whitespace the code adds or strips is always  *)
(* a token " " of its own.  The text of an error is a sequence of          *)
(* characters, because the code searches it for a substring.               *)
(***************************************************************************)
EXTENDS Integers, Sequences, FiniteSets, TLC

VARIABLES
    pc,              \* position of the script run
    file_format,     \* extension of the uploaded file
    duration_ms,     \* len(audio) of the recording
    tempDir,         \* TRUE while the TemporaryDirectory exists
    files,           \* files of the temporary directory: path -> [size, s, e]
    warned,          \* paths for which st.warning reported a size overflow
    segment_size_ms, \* split_audio_file: length of a planned range
    segments_count,  \* split_audio_file: number of planned ranges
    split_i,         \* split_audio_file: loop index
    plan,            \* history: the ranges planned by split_audio_file
    zeroDiv,         \* history: a division by zero was attempted
    segment_paths,   \* list returned by split_audio_file
    loop_i,          \* index of the transcription loop
    file_size,       \* transcribe_segment: size read at entry
    full_transcript, \* the transcript being built
    submitted,       \* history: requests sent to the remote service
    results,         \* history: what the remote service answered
    outcome          \* how the script run ended

vars == <<pc, file_format, duration_ms, tempDir, files, warned, segment_size_ms,
          segments_count, split_i, plan, zeroDiv, segment_paths, loop_i,
          file_size, full_transcript, submitted, results, outcome>>

----------------------------------------------------------------------------
(* Constants of the script *)

MAX_UPLOAD_SIZE_MB == 200
MAX_SEGMENT_SIZE_MB == 20
BYTES_PER_MB == 1024 * 1024
MAX_API_SIZE_BYTES == 24 * 1024 * 1024

max_segment_ms == 3 * 60 * 1000
min_segment_ms == 30 * 1000
segment_length_ms == 60 * 1000

----------------------------------------------------------------------------
(* Bounds of the model *)

\* most ranges a modelled recording is planned into by the size-based plan
MaxSegments == 2
\* most remote calls that fail in one job
MaxFailures == 2
\* most ranges of one job whose export stays above the limit of the API
MaxBisections == 1

----------------------------------------------------------------------------
(* Arithmetic *)

Min(a, b) == IF a <= b THEN a ELSE b
Max(a, b) == IF a >= b THEN a ELSE b

\* <<q, r>> with a * d = q * b + r and 0 <= r < b, for a, d >= 0 and b > 0,
\* computed without an intermediate above 2^31 as long as b and q fit.
RECURSIVE MulDiv(_, _, _)
MulDiv(a, d, b) ==
    IF d = 0 THEN <<0, 0>>
    ELSE LET h == MulDiv(a, d \div 2, b)
             dbl == IF h[2] >= b - h[2]
                    THEN <<2 * h[1] + 1, h[2] - (b - h[2])>>
                    ELSE <<2 * h[1], 2 * h[2]>>
             qa == a \div b
             ra == a % b
         IN  IF d % 2 = 0 THEN dbl
             ELSE IF dbl[2] >= b - ra
                  THEN <<dbl[1] + qa + 1, dbl[2] - (b - ra)>>
                  ELSE <<dbl[1] + qa, dbl[2] + ra>>

\* math.ceil(a / b) for a >= 0, b > 0
CeilDiv(a, b) == (a + b - 1) \div b

\* int((max_api_size * 0.8) / (file_size / duration_ms)), clamped to
\* [min_segment_ms, max_segment_ms]; the quotient is taken exactly
\* (0.8 = 4/5), where the source rounds it in floating point.
PlanSegmentSizeLowFloor(size, dur) ==
    Max(Min(MulDiv(4 * MAX_API_SIZE_BYTES, dur, 5 * size)[1], max_segment_ms),
        30)
PlanSegmentSize(size, dur) ==
    Max(Min(MulDiv(4 * MAX_API_SIZE_BYTES, dur, 5 * size)[1], max_segment_ms),
        min_segment_ms)

\* start_ms and end_ms of the i-th range of a plan of ranges of length seg
RangeStart(i, seg) == i * seg
RangeEndUnclamped(i, seg, dur) == (i + 1) * seg
RangeEnd(i, seg, dur) == Min((i + 1) * seg, dur)

MidPointOfEnd(s, e) == e \div 2
\* (end_ms - start_ms) // 2
MidPoint(s, e) == (e - s) \div 2

----------------------------------------------------------------------------
(* Strings *)

\* str.strip(): leading and trailing whitespace removed
RECURSIVE LStrip(_)
LStrip(t) == IF t # <<>> /\ Head(t) = " " THEN LStrip(Tail(t)) ELSE t

RECURSIVE RStrip(_)
RStrip(t) ==
    IF t # <<>> /\ t[Len(t)] = " " THEN RStrip(SubSeq(t, 1, Len(t) - 1)) ELSE t

Strip(t) == RStrip(LStrip(t))

\* decimal digits of n > 0, as characters
RECURSIVE Digits(_)
Digits(n) ==
    IF n < 10 THEN <<ToString(n)>> ELSE Digits(n \div 10) \o <<ToString(n % 10)>>

\* needle in text
Contains(text, needle) ==
    \E k \in 0..(Len(text) - Len(needle)) :
        SubSeq(text, k + 1, k + Len(needle)) = needle

----------------------------------------------------------------------------
(* The remote service and the audio library, seen from the script *)

\* what the service hears in the audio of [s, e): one word naming the range
Text(s, e) == <<"t" \o ToString(s) \o "-" \o ToString(e)>>

PlainBody == <<"o", "o", "p", "s">>
RequestIdBody == <<"r", "e", "q", "_", "8", "4", "1", "3", "0">>

\* the answers of the service: the text, or an error with a status and a body
Replies ==
    {[ok |-> TRUE, status |-> 200, body |-> <<>>]}
    \cup [ok : {FALSE}, status : {401, 413, 500}, body : {PlainBody}]
    \cup {[ok |-> FALSE, status |-> 500, body |-> RequestIdBody]}

\* str(e) of the client library's status error: "Error code: <status> - <body>"
ErrorMsg(r) ==
    <<"E", "r", "r", "o", "r", " ", "c", "o", "d", "e", ":", " ">>
    \o Digits(r.status) \o <<" ", "-", " ">> \o r.body

\* sizes an export can have: at the limit of the API and just above it
Sizes == {MAX_API_SIZE_BYTES, MAX_API_SIZE_BYTES + 1}

\* what the exports of one call of ensure_max_file_size produce: the size at
\* 16 kHz, the size at 8 kHz, or an exception of the audio library
Exports == [tier16 : Sizes, tier8 : Sizes, fails : BOOLEAN]

----------------------------------------------------------------------------
(* Files of the temporary directory *)

UploadPath == [kind |-> "upload", i |-> 0, part |-> 0]
ConvertedPath == [kind |-> "converted", i |-> 0, part |-> 0]
SegmentPath(i) == [kind |-> "segment", i |-> i, part |-> 0]
PartPath(i, k) == [kind |-> "segment", i |-> i, part |-> k]

NoFiles == [p \in {} |-> 0]
File(size, s, e) == [size |-> size, s |-> s, e |-> e]
Put(f, p, v) == [q \in DOMAIN f \cup {p} |-> IF q = p THEN v ELSE f[q]]
os_remove_ignored(f, p) == f
\* os.remove(p)
os_remove(f, p) == [q \in DOMAIN f \ {p} |-> f[q]]

TemporaryDirectoryKept(dir) == dir
\* tempfile.TemporaryDirectory().__exit__: the directory and all in it are gone
TemporaryDirectoryExit(dir) == [exists |-> FALSE, files |-> NoFiles]

st_warning_silent(w, p) == w
\* st.warning about the size of the file at path p
st_warning(w, p) == w \cup {p}

----------------------------------------------------------------------------
(* Functions of the script *)

\* ensure_max_file_size: the size of the file when the function returns, for a
\* file of the given size and the exports x of this call
ensure_max_file_size(size, x) ==
    IF size <= MAX_API_SIZE_BYTES THEN size
    ELSE IF x.fails THEN size
    ELSE IF x.tier16 <= MAX_API_SIZE_BYTES THEN x.tier16
    ELSE x.tier8

SizeMarker == <<"[Erro de tamanho no segmento - transcription falhou]", " ">>
GenericMarkerBlank == <<" ">>
GenericMarker == <<"[Erro na transcricao deste segmento]", " ">>

transcribe_segment_skip(r, s, e) ==
    IF r.ok THEN Text(s, e) ELSE <<>>
transcribe_segment_size_only(r, s, e) ==
    IF r.ok THEN Text(s, e) ELSE SizeMarker
\* transcribe_segment: the value returned for the reply r to the audio [s, e)
transcribe_segment(r, s, e) ==
    IF r.ok THEN Text(s, e)
    ELSE IF Contains(ErrorMsg(r), <<"4", "1", "3">>) THEN SizeMarker
    ELSE GenericMarker

AppendTranscriptFront(full, segment_transcript) ==
    segment_transcript \o <<" ">> \o full
\* main script: full_transcript += segment_transcript + " "
AppendTranscript(full, segment_transcript) ==
    full \o segment_transcript \o <<" ">>

\* split_audio_file, size-based plan: one pass of the loop, for the exports
\* x of the range and x1, x2 of its halves.  The files and the list after it.
SplitPass(f, paths, w, i, s, e, first, x, x1, x2) ==
    LET size == ensure_max_file_size(first.p, x)
        mid == MidPoint(s, e)
        f0 == Put(f, SegmentPath(i), File(size, s, e))
        f1 == Put(f0, PartPath(i, 1),
                  File(ensure_max_file_size(first.p1, x1), s, s + mid))
        f2 == Put(f1, PartPath(i, 2),
                  File(ensure_max_file_size(first.p2, x2), s + mid, e))
    IN  IF size > MAX_API_SIZE_BYTES
        THEN [files |-> os_remove(f2, SegmentPath(i)),
              paths |-> paths \o <<PartPath(i, 1), PartPath(i, 2)>>,
              warned |-> st_warning(w, SegmentPath(i))]
        ELSE [files |-> f0,
              paths |-> Append(paths, SegmentPath(i)),
              warned |-> w]

\* split_audio_file, one-minute plan: one pass of the loop, for a first
\* export of size first and a second one, at 8 kHz, of size second
FallbackPass(f, paths, w, i, s, e, first, second) ==
    IF first > MAX_API_SIZE_BYTES
    THEN [files |-> Put(f, SegmentPath(i), File(second, s, e)),
          paths |-> Append(paths, SegmentPath(i)),
          warned |-> st_warning(w, SegmentPath(i))]
    ELSE [files |-> Put(f, SegmentPath(i), File(first, s, e)),
          paths |-> Append(paths, SegmentPath(i)),
          warned |-> w]

\* main script: the loop that checks the size of each segment
RECURSIVE CheckSegmentSizes(_, _, _)
CheckSegmentSizes(f, paths, w) ==
    IF paths = <<>> THEN w
    ELSE CheckSegmentSizes(f, Tail(paths),
            IF f[Head(paths)].size > 24 * BYTES_PER_MB
            THEN st_warning(w, Head(paths)) ELSE w)

----------------------------------------------------------------------------
(* Inputs *)

Formats == {"wav", "mp3"}
Durations == {0, 1, 29999, 30000, 30001, 90000, 200000}
WavSizes == {MAX_SEGMENT_SIZE_MB * BYTES_PER_MB,
             MAX_SEGMENT_SIZE_MB * BYTES_PER_MB + 1,
             100 * BYTES_PER_MB}
\* sizes of a converted file: about the size that sends a recording whole
ConvertedSizes == {MAX_SEGMENT_SIZE_MB * BYTES_PER_MB,
                   MAX_SEGMENT_SIZE_MB * BYTES_PER_MB + 1}
TooLarge == MAX_UPLOAD_SIZE_MB * BYTES_PER_MB + 1
UploadSizes(fmt) ==
    IF fmt = "wav" THEN WavSizes \cup {TooLarge} ELSE {BYTES_PER_MB, TooLarge}

\* the recordings the model follows: those sent whole, and those the
\* size-based plan cuts into at most MaxSegments ranges
Admissible(size, dur) ==
    \/ size <= MAX_SEGMENT_SIZE_MB * BYTES_PER_MB
    \/ dur = 0
    \/ CeilDiv(dur, PlanSegmentSize(size, dur)) <= MaxSegments

Bisections ==
    Cardinality({k \in 1..Len(segment_paths) : segment_paths[k].part = 1})

Failures == Cardinality({k \in 1..Len(results) : ~results[k].ok})

wav_file_path == IF file_format = "wav" THEN UploadPath ELSE ConvertedPath

----------------------------------------------------------------------------
(* The script run *)

Init ==
    /\ pc = "idle"
    /\ file_format = "none"
    /\ duration_ms = 0
    /\ tempDir = FALSE
    /\ files = NoFiles
    /\ warned = {}
    /\ segment_size_ms = 0
    /\ segments_count = 0
    /\ split_i = 0
    /\ plan = <<>>
    /\ zeroDiv = FALSE
    /\ segment_paths = <<>>
    /\ loop_i = 0
    /\ file_size = 0
    /\ full_transcript = <<>>
    /\ submitted = <<>>
    /\ results = <<>>
    /\ outcome = "none"

\* the script run ends inside the with block: by st.stop(), by an exception
\* that reaches the outer handler, or at the end of the block
EndInBlock(o) ==
    LET dir == TemporaryDirectoryExit([exists |-> tempDir, files |-> files])
    IN  /\ pc' = "ended"
        /\ outcome' = o
        /\ tempDir' = dir.exists
        /\ files' = dir.files

\* the click on "Transcrever" with an uploaded file: the size check, the
\* temporary directory and the saved upload
Transcrever ==
    /\ pc = "idle"
    /\ \E fmt \in Formats, dur \in Durations :
       \E size \in UploadSizes(fmt) :
        /\ fmt = "wav" => (size = TooLarge \/ Admissible(size, dur))
        /\ IF size > MAX_UPLOAD_SIZE_MB * BYTES_PER_MB
           THEN /\ pc' = "ended"
                /\ outcome' = "rejected"
                /\ UNCHANGED <<file_format, duration_ms, tempDir, files>>
           ELSE /\ pc' = "saved"
                /\ file_format' = fmt
                /\ duration_ms' = dur
                /\ tempDir' = TRUE
                /\ files' = Put(NoFiles, UploadPath, File(size, 0, dur))
                /\ UNCHANGED outcome
    /\ UNCHANGED <<warned, segment_size_ms, segments_count, split_i, plan,
                   zeroDiv, segment_paths, loop_i, file_size, full_transcript,
                   submitted, results>>

\* a WAV upload is used as it is
KeepWav ==
    /\ pc = "saved"
    /\ file_format = "wav"
    /\ pc' = "converted"
    /\ UNCHANGED <<file_format, duration_ms, tempDir, files, warned,
                   segment_size_ms, segments_count, split_i, plan, zeroDiv,
                   segment_paths, loop_i, file_size, full_transcript,
                   submitted, results, outcome>>

\* convert_audio_to_wav returns the converted file
ConvertOk ==
    /\ pc = "saved"
    /\ file_format # "wav"
    /\ \E size \in ConvertedSizes :
        /\ Admissible(size, duration_ms)
        /\ files' = Put(files, ConvertedPath, File(size, 0, duration_ms))
    /\ pc' = "converted"
    /\ UNCHANGED <<file_format, duration_ms, tempDir, warned, segment_size_ms,
                   segments_count, split_i, plan, zeroDiv, segment_paths,
                   loop_i, file_size, full_transcript, submitted, results,
                   outcome>>

\* convert_audio_to_wav raises: st.error, st.stop
ConvertFail ==
    /\ pc = "saved"
    /\ file_format # "wav"
    /\ EndInBlock("stopped")
    /\ UNCHANGED <<file_format, duration_ms, warned, segment_size_ms,
                   segments_count, split_i, plan, zeroDiv, segment_paths,
                   loop_i, file_size, full_transcript, submitted, results>>

\* the recording is sent whole: ensure_max_file_size, the size check, the call
SingleSubmit ==
    /\ pc = "converted"
    /\ files[wav_file_path].size <= MAX_SEGMENT_SIZE_MB * BYTES_PER_MB
    /\ \E x \in Exports :
        LET size == ensure_max_file_size(files[wav_file_path].size, x)
        IN  IF size > MAX_API_SIZE_BYTES
            THEN /\ EndInBlock("stopped")
                 /\ UNCHANGED submitted
            ELSE /\ pc' = "single_call"
                 /\ files' = Put(files, wav_file_path,
                                 File(size, 0, duration_ms))
                 /\ submitted' = Append(submitted,
                        [path |-> wav_file_path, s |-> 0, e |-> duration_ms,
                         size |-> size, warned |-> wav_file_path \in warned])
                 /\ UNCHANGED <<tempDir, outcome>>
    /\ UNCHANGED <<file_format, duration_ms, warned, segment_size_ms,
                   segments_count, split_i, plan, zeroDiv, segment_paths,
                   loop_i, file_size, full_transcript, results>>

\* the call for the whole recording returns or raises; a text is stripped and
\* shown, an exception reaches the outer handler
SingleReturn ==
    /\ pc = "single_call"
    /\ \E r \in Replies :
        /\ results' = Append(results, r)
        /\ IF r.ok
           THEN /\ full_transcript' = Strip(Text(0, duration_ms))
                /\ EndInBlock("success")
           ELSE /\ EndInBlock("error")
                /\ UNCHANGED full_transcript
    /\ UNCHANGED <<file_format, duration_ms, warned, segment_size_ms,
                   segments_count, split_i, plan, zeroDiv, segment_paths,
                   loop_i, file_size, submitted>>

\* split_audio_file is entered: the size-based plan, or the one-minute plan
\* after the division by a duration of zero raised
SplitStart ==
    /\ pc = "converted"
    /\ files[wav_file_path].size > MAX_SEGMENT_SIZE_MB * BYTES_PER_MB
    /\ IF duration_ms = 0
       THEN /\ zeroDiv' = TRUE
            /\ pc' = "fallback"
            /\ segment_size_ms' = segment_length_ms
            /\ segments_count' = CeilDiv(duration_ms, segment_length_ms)
       ELSE /\ zeroDiv' = FALSE
            /\ pc' = "split"
            /\ segment_size_ms' =
                   PlanSegmentSize(files[wav_file_path].size, duration_ms)
            /\ segments_count' = CeilDiv(duration_ms, segment_size_ms')
    /\ split_i' = 0
    /\ segment_paths' = <<>>
    /\ plan' = <<>>
    /\ UNCHANGED <<file_format, duration_ms, tempDir, files, warned, loop_i,
                   file_size, full_transcript, submitted, results, outcome>>

\* one pass of the loop of the size-based plan
SplitLoop ==
    /\ pc = "split"
    /\ split_i < segments_count
    /\ LET s == RangeStart(split_i, segment_size_ms)
           e == RangeEnd(split_i, segment_size_ms, duration_ms)
       IN  /\ plan' = Append(plan, [s |-> s, e |-> e])
           /\ \E p \in Sizes, x \in Exports :
                IF ensure_max_file_size(p, x) > MAX_API_SIZE_BYTES
                THEN /\ Bisections < MaxBisections
                     /\ \E p1 \in Sizes, p2 \in Sizes, x1 \in Exports, x2 \in Exports :
                          LET r == SplitPass(files, segment_paths, warned,
                                       split_i, s, e,
                                       [p |-> p, p1 |-> p1, p2 |-> p2],
                                       x, x1, x2)
                          IN  /\ files' = r.files
                              /\ segment_paths' = r.paths
                              /\ warned' = r.warned
                ELSE LET r == SplitPass(files, segment_paths, warned, split_i,
                                  s, e, [p |-> p, p1 |-> p, p2 |-> p], x, x, x)
                     IN  /\ files' = r.files
                         /\ segment_paths' = r.paths
                         /\ warned' = r.warned
    /\ split_i' = split_i + 1
    /\ UNCHANGED <<pc, file_format, duration_ms, tempDir, segment_size_ms,
                   segments_count, zeroDiv, loop_i, file_size, full_transcript,
                   submitted, results, outcome>>

\* the audio library raises in the size-based plan: the one-minute plan starts
SplitRaise ==
    /\ pc = "split"
    /\ split_i < segments_count
    /\ pc' = "fallback"
    /\ segment_size_ms' = segment_length_ms
    /\ segments_count' = CeilDiv(duration_ms, segment_length_ms)
    /\ split_i' = 0
    /\ segment_paths' = <<>>
    /\ plan' = <<>>
    /\ UNCHANGED <<file_format, duration_ms, tempDir, files, warned, zeroDiv,
                   loop_i, file_size, full_transcript, submitted, results,
                   outcome>>

\* one pass of the loop of the one-minute plan
FallbackLoop ==
    /\ pc = "fallback"
    /\ split_i < segments_count
    /\ LET s == RangeStart(split_i, segment_size_ms)
           e == RangeEnd(split_i, segment_size_ms, duration_ms)
       IN  /\ plan' = Append(plan, [s |-> s, e |-> e])
           /\ \E first \in Sizes, second \in Sizes :
                LET r == FallbackPass(files, segment_paths, warned, split_i,
                                      s, e, first, second)
                IN  /\ files' = r.files
                    /\ segment_paths' = r.paths
                    /\ warned' = r.warned
    /\ split_i' = split_i + 1
    /\ UNCHANGED <<pc, file_format, duration_ms, tempDir, segment_size_ms,
                   segments_count, zeroDiv, loop_i, file_size, full_transcript,
                   submitted, results, outcome>>

\* the audio library raises in the one-minute plan too: split_audio_file
\* raises, the script reports it and stops
FallbackRaise ==
    /\ pc = "fallback"
    /\ split_i < segments_count
    /\ EndInBlock("stopped")
    /\ UNCHANGED <<file_format, duration_ms, warned, segment_size_ms,
                   segments_count, split_i, plan, zeroDiv, segment_paths,
                   loop_i, file_size, full_transcript, submitted, results>>

\* split_audio_file returns; the script checks the size of each segment
SplitReturn ==
    /\ pc \in {"split", "fallback"}
    /\ split_i = segments_count
    /\ warned' = CheckSegmentSizes(files, segment_paths, warned)
    /\ full_transcript' = <<>>
    /\ loop_i' = 0
    /\ pc' = "dispatch"
    /\ UNCHANGED <<file_format, duration_ms, tempDir, files, segment_size_ms,
                   segments_count, split_i, plan, zeroDiv, segment_paths,
                   file_size, submitted, results, outcome>>

\* transcribe_segment up to the call: the size check and the request
TranscribeSubmit ==
    /\ pc = "dispatch"
    /\ loop_i < Len(segment_paths)
    /\ LET p == segment_paths[loop_i + 1]
       IN  /\ file_size' = files[p].size
           /\ warned' = IF files[p].size > MAX_API_SIZE_BYTES
                        THEN st_warning(warned, p) ELSE warned
           /\ \E x \in Exports :
                LET size == ensure_max_file_size(files[p].size, x)
                IN  /\ files' = Put(files, p, File(size, files[p].s, files[p].e))
                    /\ submitted' = Append(submitted,
                           [path |-> p, s |-> files[p].s, e |-> files[p].e,
                            size |-> size, warned |-> p \in warned'])
    /\ pc' = "calling"
    /\ UNCHANGED <<file_format, duration_ms, tempDir, segment_size_ms,
                   segments_count, split_i, plan, zeroDiv, segment_paths,
                   loop_i, full_transcript, results, outcome>>

\* the call returns or raises: transcribe_segment returns the text or a
\* marker, the loop appends it and removes the file of the segment
TranscribeReturn ==
    /\ pc = "calling"
    /\ LET p == segment_paths[loop_i + 1]
       IN  /\ \E r \in Replies :
                /\ r.ok \/ Failures < MaxFailures
                /\ results' = Append(results, r)
                /\ full_transcript' =
                       AppendTranscript(full_transcript,
                           transcribe_segment(r, files[p].s, files[p].e))
           /\ files' = os_remove(files, p)
    /\ loop_i' = loop_i + 1
    /\ pc' = "dispatch"
    /\ UNCHANGED <<file_format, duration_ms, tempDir, warned, segment_size_ms,
                   segments_count, split_i, plan, zeroDiv, segment_paths,
                   file_size, submitted, outcome>>

\* the loop is over: the transcript is stripped and shown
Finish ==
    /\ pc = "dispatch"
    /\ loop_i = Len(segment_paths)
    /\ full_transcript' = Strip(full_transcript)
    /\ EndInBlock("success")
    /\ UNCHANGED <<file_format, duration_ms, warned, segment_size_ms,
                   segments_count, split_i, plan, zeroDiv, segment_paths,
                   loop_i, file_size, submitted, results>>

Next ==
    \/ Transcrever
    \/ KeepWav
    \/ ConvertOk
    \/ ConvertFail
    \/ SingleSubmit
    \/ SingleReturn
    \/ SplitStart
    \/ SplitLoop
    \/ SplitRaise
    \/ FallbackLoop
    \/ FallbackRaise
    \/ SplitReturn
    \/ TranscribeSubmit
    \/ TranscribeReturn
    \/ Finish

Spec == Init /\ [][Next]_vars

----------------------------------------------------------------------------
(* Properties *)

\* the words of a string, without the whitespace between them
Words(t) == SelectSeq(t, LAMBDA w : w # " ")

MarkerWords == {SizeMarker[1], GenericMarker[1]}

\* the words of a string that are no failure marker
TextWords(t) == SelectSeq(t, LAMBDA w : w # " " /\ w \notin MarkerWords)

Failed(k) == ~results[k].ok
FailedCalls == {k \in 1..Len(results) : Failed(k)}

\* the recording was cut into segments
Segmented == Len(segment_paths) > 0

\* the texts of the first k calls that returned one, in the order of the calls
RECURSIVE TextsOfCalls(_)
TextsOfCalls(k) ==
    IF k = 0 THEN <<>>
    ELSE TextsOfCalls(k - 1)
         \o (IF results[k].ok THEN Text(submitted[k].s, submitted[k].e)
             ELSE <<>>)

\* the first k segments in the order of the audio, each followed by a space,
\* with the marker m in the place of a failed one
RECURSIVE InAudioOrder(_, _)
InAudioOrder(k, m) ==
    IF k = 0 THEN <<>>
    ELSE InAudioOrder(k - 1, m)
         \o (IF results[k].ok THEN Text(submitted[k].s, submitted[k].e) ELSE m)
         \o <<" ">>

\* C1: for a duration above zero the planned ranges start at 0, each starts
\* where the one before ends and is not empty, and when the plan is complete
\* the last one ends at the duration: they cover [0, duration_ms) exactly.
C1_PlanCoversDuration ==
    duration_ms > 0 =>
        /\ \A k \in 1..Len(plan) :
            /\ plan[k].s < plan[k].e
            /\ plan[k].s = IF k = 1 THEN 0 ELSE plan[k - 1].e
        /\ (segments_count > 0 /\ Len(plan) = segments_count)
                => plan[Len(plan)].e = duration_ms

\* a complete size-based plan of several ranges whose last range is cut short
C1_Witness ==
    /\ pc = "split"
    /\ segments_count >= 2
    /\ Len(plan) = segments_count
    /\ plan[Len(plan)].e - plan[Len(plan)].s < segment_size_ms

\* C2: every file sent to the remote service is within MAX_API_SIZE_BYTES, or
\* an overflow warning for it was issued before it was sent.
C2_WithinBudgetOrWarned ==
    \A k \in 1..Len(submitted) :
        submitted[k].size <= MAX_API_SIZE_BYTES \/ submitted[k].warned

\* the second half of a bisected range is sent above the limit, after a
\* warning for it
C2_Witness ==
    \E k \in 1..Len(submitted) :
        /\ submitted[k].path.part = 2
        /\ submitted[k].size > MAX_API_SIZE_BYTES
        /\ submitted[k].warned

\* C3: the segments are sent in the order of the audio, each starting where
\* the one before ends (the halves of a bisected range in the place of the
\* range, first half first), and the finished transcript holds the texts of
\* the segments in that order, up to the end of the recording.
C3_ChronologicalOrder ==
    /\ \A k \in 1..Len(submitted) :
        /\ submitted[k].s <= submitted[k].e
        /\ submitted[k].s = IF k = 1 THEN 0 ELSE submitted[k - 1].e
    /\ outcome = "success" =>
        /\ TextWords(full_transcript) = TextsOfCalls(Len(results))
        /\ Len(results) = Len(submitted)
        /\ (duration_ms > 0 /\ Len(submitted) > 0)
                => submitted[Len(submitted)].e = duration_ms

\* a finished job with a bisected range whose halves both returned a text
C3_Witness ==
    /\ outcome = "success"
    /\ Len(submitted) >= 3
    /\ \E k \in 1..(Len(submitted) - 1) :
        /\ submitted[k].path.part = 1
        /\ submitted[k + 1].path.part = 2
        /\ results[k].ok
        /\ results[k + 1].ok

\* exactly one call of a job of several segments failed, with a server error
OneTransientFailure ==
    /\ Len(segment_paths) >= 2
    /\ Cardinality(FailedCalls) = 1
    /\ \A k \in FailedCalls : results[k].status = 500

\* C4: when exactly one segment of several fails with a transient error, the
\* job goes on, every segment is sent, and the finished transcript is the
\* texts of the other segments with a failure marker that is not empty in
\* the place of the failed one.
C4_OneFailureOneMarker ==
    OneTransientFailure =>
        /\ pc \in {"dispatch", "calling", "ended"}
        /\ outcome \in {"none", "success"}
        /\ pc = "ended" =>
            /\ outcome = "success"
            /\ Len(results) = Len(segment_paths)
            /\ \E m \in {SizeMarker, GenericMarker} :
                /\ Strip(m) # <<>>
                /\ full_transcript = Strip(InAudioOrder(Len(results), m))

\* a finished job of three segments or more whose second call failed
C4_Witness ==
    /\ OneTransientFailure
    /\ pc = "ended"
    /\ Len(results) >= 3
    /\ Failed(2)

NonFatal(k) == Failed(k) /\ results[k].status \in {413, 500}

C7_ZeroDurationFails ==
    (duration_ms = 0 /\ segment_size_ms > 0) =>
        /\ ~zeroDiv
        /\ outcome # "success"

\* C8: when the job has ended, however it ended, the temporary directory and
\* every file in it are gone.
C8_NothingOutlivesJob ==
    pc = "ended" => (~tempDir /\ files = NoFiles)

\* a job stopped in the one-minute plan after segment files were written
C8_Witness ==
    /\ pc = "ended"
    /\ outcome = "stopped"
    /\ split_i > 0

\* C9, as stated: a failed call is recorded with the size marker exactly when
\* the status of the error is 413, with the generic marker otherwise, and the
\* markers differ from each other and from the empty string.
C9_SizeMarkerIff413 ==
    /\ SizeMarker # GenericMarker
    /\ Strip(SizeMarker) # <<>>
    /\ Strip(GenericMarker) # <<>>
    /\ Segmented =>
        \A k \in FailedCalls :
            Words(full_transcript)[k] =
                IF results[k].status = 413 THEN SizeMarker[1]
                ELSE GenericMarker[1]

\* C10: once the result of a segment is recorded its file is gone, so it is
\* gone before the next segment is sent, whether the call failed or not.
C10_FileRemovedAfterResult ==
    Segmented =>
        \A k \in 1..Len(results) : submitted[k].path \notin DOMAIN files

\* the third segment is being sent after a failed and a successful call
C10_Witness ==
    /\ pc = "calling"
    /\ Len(results) = 2
    /\ Failed(1)
    /\ results[2].ok

\* the plan of split_audio_file is complete
PlanComplete == segments_count > 0 /\ Len(plan) = segments_count

\* C11: a recording shorter than min_segment_ms, whatever the size of its
\* file, is planned as exactly one range, from 0 to its duration.
C11_ShortRecordingOneRange ==
    (0 < duration_ms /\ duration_ms < min_segment_ms) =>
        /\ segments_count <= 1
        /\ PlanComplete => plan = <<[s |-> 0, e |-> duration_ms]>>

\* the size-based plan of a recording of 29999 ms and 100 MB, whose length
\* of a range is raised to min_segment_ms, is complete
C11_Witness ==
    /\ pc = "split"
    /\ duration_ms = 29999
    /\ files[wav_file_path].size = 100 * BYTES_PER_MB
    /\ PlanComplete

\* the halves of bisected ranges among the segments that still have a file
Halves ==
    {k \in 1..Len(segment_paths) :
        segment_paths[k].part # 0 /\ segment_paths[k] \in DOMAIN files}

====
